---------------------------- MODULE Spec2Model ----------------------------
(***************************************************************************)
(* A model of the OSC repeater (src/src/lib.rs, src/src/main.rs):          *)
(*   - the OSC message codec, OscMessage::serialize / ::deserialize;       *)
(*   - the relay: OscRepeater::run spawning one Sender task per target and *)
(*     one Receiver (listener) task per listen port around one tokio       *)
(*     broadcast channel owned by the Distributor.                         *)
(*   - main: the configuration gate, Config::validate, before the relay.   *)
(* Byte strings are sequences of 0..255.  Rust indexes from 0, TLA+ from   *)
(* 1: Index(data, i) is the code's data[i].                                *)
(***************************************************************************)
EXTENDS Integers, Sequences, FiniteSets, TLC

VARIABLES
    message,   \* codec: the OscMessage handed to serialize
    input,     \* codec: the byte slice handed to deserialize
    decoded,   \* codec: what deserialize returned for data
    phase,     \* codec: "new" -> "encoded" -> "decoded"
    edits,     \* codec: how many edits the input bytes have undergone
    config,        \* the Config of the configuration file: listen_ports, targets
    run,           \* main and OscRepeater::run: [pc, i], position and loop index
    repeater,      \* whether main's OscRepeater (and its Arc<Distributor>) exists
    chan,          \* the broadcast channel: every payload tx.send stored, in order
    senderPc,      \* per target: the Sender task's position
    rxNext,        \* per target: the position its broadcast::Receiver reads next
    senderLog,     \* per target: what rx.recv() returned and socket.send did with it
    reused,        \* per target: the positions received after their buffer was reused
    receiverPc,    \* per listen port: the Receiver task's position
    buf,           \* per listen port: the written prefix of its receive buffer
    receiverLast,  \* per listen port: how its latest loop iteration ended
    receiverErrors,\* per listen port: how many recv_from errors it has seen
    accepted,      \* the datagrams, as they arrived, that passed deserialize
    published,     \* per stored payload: the datagram, its listen port, the live handles
    datagrams,     \* how many datagrams have arrived so far
    faults         \* how many transient socket errors have occurred so far

codecVars == <<message, input, decoded, phase, edits>>

relayVars == <<config, run, repeater, chan, published, senderPc, rxNext, senderLog, reused,
               receiverPc, buf, receiverLast, receiverErrors, accepted, datagrams, faults>>

vars == <<codecVars, relayVars>>

(***************************************************************************)
(* Bounds of the model.                                                    *)
(***************************************************************************)
MaxAddrLen == 2     \* longest address of a generated message
MaxArgs == 2        \* most arguments of a generated message
MaxStrLen == 1      \* longest String argument of a generated message
MaxEdits == 1       \* most edits applied to an encoded frame
NumTargets == 2     \* most entries of config.targets: one Sender each
NumPorts == 2       \* most entries of config.listen_ports: one Receiver each
Capacity == 1       \* the capacity asked of broadcast::channel (the code asks 1000)
MaxDatagrams == 3   \* most datagrams that arrive at the listen ports
MaxFaults == 1      \* most transient socket errors (send, recv_from)
MaxTextLen == 4     \* longest address and String of the messages of every length
MaxTailLen == 2     \* most bytes that follow a frame in one datagram

(***************************************************************************)
(* Bytes, characters and values the inputs are drawn from.                 *)
(***************************************************************************)
NUL == 0
COMMA == 44         \* b','
TAG_i == 105        \* b'i'
TAG_f == 102        \* b'f'
TAG_s == 115        \* b's'
TAG_T == 84         \* b'T'
TAG_F == 70         \* b'F'

\* Characters of generated addresses and strings.  A Rust String may hold
\* U+0000, whose UTF-8 encoding is the single byte 0.
AddrChars == {NUL, 47, 97}
StrChars == {NUL, 97}
IntVals == {-2147483647 - 1, -123, 101}
\* An f32 is modelled by its IEEE-754 fields; this is -456.789f32 (0xC3E464FE)
\* and 3.14f32 (0x4048F5C3).
FloatVals == {[sign |-> 1, exp |-> 135, mant |-> 6579454],
              [sign |-> 0, exp |-> 128, mant |-> 4781507]}
\* Bytes an edit may write into a frame: NUL, ',', 'a', 's' and 0xFF, a byte
\* that occurs in no UTF-8 text.
EditBytes == {NUL, COMMA, 97, TAG_s, 255}

SeqsUpTo(S, n) == UNION {[1..k -> S] : k \in 0..n}

Range(s) == {s[i] : i \in 1..Len(s)}

(***************************************************************************)
(* OscArg and OscMessage.                                                  *)
(***************************************************************************)
ArgInt(v) == [tag |-> "Int", int |-> v]
ArgFloat(v) == [tag |-> "Float", float |-> v]
ArgString(v) == [tag |-> "String", str |-> v]
ArgBool(v) == [tag |-> "Bool", bool |-> v]

OscMessage(address, args) == [address |-> address, args |-> args]

ArgVals ==
    {ArgInt(v) : v \in IntVals} \cup {ArgFloat(v) : v \in FloatVals}
    \cup {ArgString(v) : v \in SeqsUpTo(StrChars, MaxStrLen)}
    \cup {ArgBool(v) : v \in BOOLEAN}

Messages ==
    {OscMessage(a, args) : a \in SeqsUpTo(AddrChars, MaxAddrLen),
                           args \in SeqsUpTo(ArgVals, MaxArgs)}

(***************************************************************************)
(* Fixed-width conversions.  TLC's integers are 32-bit, so the conversions *)
(* work byte by byte; \div rounds down and % is never negative.            *)
(***************************************************************************)
\* A slip: to_le_bytes where to_be_bytes is meant.
I32ToLeBytes(v) ==
    << v % 256, (v \div 256) % 256, (v \div 65536) % 256, (v \div 16777216) % 256 >>

\* i32::to_be_bytes: two's complement, most significant byte first.
I32ToBeBytes(v) ==
    << (v \div 16777216) % 256, (v \div 65536) % 256, (v \div 256) % 256, v % 256 >>

\* i32::from_be_bytes.
I32FromBeBytes(b) ==
    (IF b[1] >= 128 THEN b[1] - 256 ELSE b[1]) * 16777216
        + b[2] * 65536 + b[3] * 256 + b[4]

\* f32::to_be_bytes: sign bit, 8 exponent bits, 23 mantissa bits.
F32ToBeBytes(f) ==
    << f.sign * 128 + f.exp \div 2,
       (f.exp % 2) * 128 + f.mant \div 65536,
       (f.mant \div 256) % 256,
       f.mant % 256 >>

\* f32::from_be_bytes.
F32FromBeBytes(b) ==
    [sign |-> b[1] \div 128,
     exp |-> (b[1] % 128) * 2 + b[2] \div 128,
     mant |-> (b[2] % 128) * 65536 + b[3] * 256 + b[4]]

\* String::from_utf8_lossy(..).to_string() on the bytes the model uses: an
\* ASCII byte is kept, and a byte that can neither begin nor continue a UTF-8
\* sequence (0xFF) becomes U+FFFD, the bytes EF BF BD.
RECURSIVE FromUtf8Lossy(_)
FromUtf8Lossy(bytes) ==
    IF bytes = <<>> THEN <<>>
    ELSE (IF Head(bytes) < 128 THEN <<Head(bytes)>> ELSE <<239, 191, 189>>)
             \o FromUtf8Lossy(Tail(bytes))

(***************************************************************************)
(* OscMessage::serialize                                                   *)
(***************************************************************************)
\* while buffer.len() % 4 != 0 { buffer.push(0); }
\* A slip: the buffer padded to an even length only.
PadToEven(buffer) ==
    IF Len(buffer) % 2 # 0 THEN Append(buffer, NUL) ELSE buffer

RECURSIVE PadTo4(_)
PadTo4(buffer) ==
    IF Len(buffer) % 4 # 0 THEN PadTo4(Append(buffer, NUL)) ELSE buffer

\* A slip: the tags of Int and Float exchanged.
TypeTagSwapped(arg) ==
    CASE arg.tag = "Int" -> TAG_f
      [] arg.tag = "Float" -> TAG_i
      [] arg.tag = "String" -> TAG_s
      [] arg.tag = "Bool" -> IF arg.bool THEN TAG_T ELSE TAG_F

\* The type tag pushed for an argument.
TypeTag(arg) ==
    CASE arg.tag = "Int" -> TAG_i
      [] arg.tag = "Float" -> TAG_f
      [] arg.tag = "String" -> TAG_s
      [] arg.tag = "Bool" -> IF arg.bool THEN TAG_T ELSE TAG_F

\* A slip: a Bool also written as four bytes of data.
PushArgBoolData(buffer, arg) ==
    CASE arg.tag = "Int" -> buffer \o I32ToBeBytes(arg.int)
      [] arg.tag = "Float" -> buffer \o F32ToBeBytes(arg.float)
      [] arg.tag = "String" -> PadTo4(Append(buffer \o arg.str, NUL))
      [] arg.tag = "Bool" -> buffer \o <<0, 0, 0, IF arg.bool THEN 1 ELSE 0>>

\* The buffer after one argument's data is written.
PushArg(buffer, arg) ==
    CASE arg.tag = "Int" -> buffer \o I32ToBeBytes(arg.int)
      [] arg.tag = "Float" -> buffer \o F32ToBeBytes(arg.float)
      [] arg.tag = "String" -> PadTo4(Append(buffer \o arg.str, NUL))
      [] arg.tag = "Bool" -> buffer

RECURSIVE PushArgs(_, _, _)
PushArgs(buffer, args, k) ==
    IF k > Len(args) THEN buffer
    ELSE PushArgs(PushArg(buffer, args[k]), args, k + 1)

\* The buffer after the address section.
AddressSection(m) == PadTo4(Append(m.address, NUL))

\* The buffer after the type-tag section.
TypeTagSection(m) ==
    PadTo4(Append(AddressSection(m) \o <<COMMA>>
                      \o [k \in 1..Len(m.args) |-> TypeTag(m.args[k])], NUL))

Serialize(m) == PushArgs(TypeTagSection(m), m.args, 1)

(***************************************************************************)
(* OscMessage::deserialize                                                 *)
(***************************************************************************)
\* What reading data[i] with i >= data.len() stands for: Rust panics.
OutOfBounds == -1

\* data[i]
Index(data, i) == IF i < Len(data) THEN data[i + 1] ELSE OutOfBounds

\* &data[from..to]
Slice(data, from, to) == SubSeq(data, from + 1, to)

\* ((x + 3) / 4) * 4
Align4(x) == ((x + 3) \div 4) * 4

\* while i < data.len() && data[i] != 0 { i += 1; }
RECURSIVE ScanToNull(_, _)
ScanToNull(data, i) ==
    IF i < Len(data) /\ Index(data, i) # NUL THEN ScanToNull(data, i + 1) ELSE i

Ok(address, args) == [kind |-> "Ok", address |-> address, args |-> args]
Err(why) == [kind |-> "Err", why |-> why]
Panic == [kind |-> "Panic"]

\* A slip: the guard of the string case used for the integer case.
IntDataMissingLoose(data, pos) == pos >= Len(data)

\* The guards of the argument loop.
IntDataMissing(data, pos) == pos + 4 > Len(data)
FloatDataMissing(data, pos) == pos + 4 > Len(data)
StringDataMissing(data, pos) == pos >= Len(data)

\* [data[pos], data[pos + 1], data[pos + 2], data[pos + 3]]
FourBytes(data, pos) ==
    << Index(data, pos), Index(data, pos + 1), Index(data, pos + 2), Index(data, pos + 3) >>

RECURSIVE ParseArgs(_, _, _, _, _)

\* A slip: input left over after the last argument is an error.
ParseArgsToEnd(data, type_tags, k, pos, args) ==
    IF k > Len(type_tags)
    THEN IF pos < Len(data) THEN Err("TrailingBytes")
         ELSE [kind |-> "Args", args |-> args]
    ELSE LET type_tag == type_tags[k] IN
      CASE type_tag = TAG_i ->
             IF pos + 4 > Len(data) THEN Err("IntDataMissing")
             ELSE ParseArgs(data, type_tags, k + 1, pos + 4,
                            Append(args, ArgInt(I32FromBeBytes(FourBytes(data, pos)))))
        [] type_tag = TAG_f ->
             IF pos + 4 > Len(data) THEN Err("FloatDataMissing")
             ELSE ParseArgs(data, type_tags, k + 1, pos + 4,
                            Append(args, ArgFloat(F32FromBeBytes(FourBytes(data, pos)))))
        [] type_tag = TAG_s ->
             IF pos >= Len(data) THEN Err("StringDataMissing")
             ELSE LET str_end == ScanToNull(data, pos) IN
               IF str_end >= Len(data) THEN Err("StringUnterminated")
               ELSE ParseArgs(data, type_tags, k + 1, Align4(str_end + 1),
                              Append(args, ArgString(FromUtf8Lossy(Slice(data, pos, str_end)))))
        [] type_tag \in {TAG_T, TAG_F} ->
             ParseArgs(data, type_tags, k + 1, pos, Append(args, ArgBool(type_tag = TAG_T)))
        [] OTHER -> Err("UnknownTypeTag")

\* for &type_tag in type_tags { match type_tag { .. } }
ParseArgs(data, type_tags, k, pos, args) ==
    IF k > Len(type_tags) THEN [kind |-> "Args", args |-> args]
    ELSE LET type_tag == type_tags[k] IN
      CASE type_tag = TAG_i ->
             IF IntDataMissing(data, pos) THEN Err("IntDataMissing")
             ELSE LET bytes == FourBytes(data, pos) IN
               IF OutOfBounds \in Range(bytes) THEN Panic
               ELSE ParseArgs(data, type_tags, k + 1, pos + 4,
                              Append(args, ArgInt(I32FromBeBytes(bytes))))
        [] type_tag = TAG_f ->
             IF FloatDataMissing(data, pos) THEN Err("FloatDataMissing")
             ELSE LET bytes == FourBytes(data, pos) IN
               IF OutOfBounds \in Range(bytes) THEN Panic
               ELSE ParseArgs(data, type_tags, k + 1, pos + 4,
                              Append(args, ArgFloat(F32FromBeBytes(bytes))))
        [] type_tag = TAG_s ->
             IF StringDataMissing(data, pos) THEN Err("StringDataMissing")
             ELSE LET str_end == ScanToNull(data, pos) IN
               IF str_end >= Len(data) THEN Err("StringUnterminated")
               ELSE ParseArgs(data, type_tags, k + 1, Align4(str_end + 1),
                              Append(args, ArgString(FromUtf8Lossy(Slice(data, pos, str_end)))))
        [] type_tag \in {TAG_T, TAG_F} ->
             ParseArgs(data, type_tags, k + 1, pos, Append(args, ArgBool(type_tag = TAG_T)))
        [] OTHER -> Err("UnknownTypeTag")

\* From the type-tag section on: pos is the computed offset of the ','.
ParseTypeTags(data, address, pos) ==
    IF pos >= Len(data) THEN Err("BadTypeTags")
    ELSE IF Index(data, pos) = OutOfBounds THEN Panic
    ELSE IF Index(data, pos) # COMMA THEN Err("BadTypeTags")
    ELSE LET type_end == ScanToNull(data, pos + 1) IN
      IF type_end >= Len(data) THEN Err("TypeTagsUnterminated")
      ELSE LET parsed == ParseArgs(data, Slice(data, pos + 1, type_end), 1,
                                   Align4(type_end + 1), <<>>) IN
        IF parsed.kind = "Args" THEN Ok(address, parsed.args) ELSE parsed

Deserialize(bytes) ==
    IF Len(bytes) < 4 THEN Err("TooShort")
    ELSE LET addr_end == ScanToNull(bytes, 0) IN
      IF addr_end >= Len(bytes) \/ addr_end = 0 THEN Err("BadAddress")
      ELSE ParseTypeTags(bytes, FromUtf8Lossy(Slice(bytes, 0, addr_end)),
                         Align4(addr_end + 1))

(***************************************************************************)
(* The codec under test: a message is encoded, and bytes are decoded.      *)
(***************************************************************************)
NotDecoded == [kind |-> "None"]

\* test_osc_serialization: message.serialize()
Encode ==
    /\ phase = "new"
    /\ input' = Serialize(message)
    /\ phase' = "encoded"
    /\ UNCHANGED <<message, decoded, edits>>
    /\ UNCHANGED relayVars

\* OscMessage::deserialize(&data)
Decode ==
    /\ phase = "encoded"
    /\ decoded' = Deserialize(input)
    /\ phase' = "decoded"
    /\ UNCHANGED <<message, input, edits>>
    /\ UNCHANGED relayVars

\* The bytes that arrive need not be a frame serialize produced: a frame cut
\* short, with a byte overwritten, or with a byte added.
Truncate ==
    /\ phase = "encoded"
    /\ edits < MaxEdits
    /\ \E n \in 0..(Len(input) - 1) : input' = SubSeq(input, 1, n)
    /\ edits' = edits + 1
    /\ UNCHANGED <<message, decoded, phase>>
    /\ UNCHANGED relayVars

SetByte ==
    /\ phase = "encoded"
    /\ edits < MaxEdits
    /\ \E i \in 1..Len(input), b \in EditBytes :
          /\ input[i] # b
          /\ input' = [input EXCEPT ![i] = b]
    /\ edits' = edits + 1
    /\ UNCHANGED <<message, decoded, phase>>
    /\ UNCHANGED relayVars

AppendByte ==
    /\ phase = "encoded"
    /\ edits < MaxEdits
    /\ \E b \in EditBytes : input' = Append(input, b)
    /\ edits' = edits + 1
    /\ UNCHANGED <<message, decoded, phase>>
    /\ UNCHANGED relayVars

(***************************************************************************)
(* The relay: configuration, channel and tasks.                            *)
(***************************************************************************)
MAX_PACKET_SIZE == 65507

\* The values of a configuration file: a listen port is a u16, of which 0
\* and one other value are drawn; a target is a SocketAddr, which nothing in
\* the program inspects.
PortVals == {0, 9000}
TargetVals == {"127.0.0.1:9001"}
Configs == [listen_ports : SeqsUpTo(PortVals, NumPorts),
            targets : SeqsUpTo(TargetVals, NumTargets)]

\* A slip: only the first listen port is looked at.
CheckPortsFirstOnly(ports, k) ==
    IF ports[k] = 0 THEN [kind |-> "Err", error |-> "InvalidPort", port |-> ports[k]]
    ELSE [kind |-> "Ok"]

\* for port in &self.listen_ports: the first port that is 0 is the error.
RECURSIVE CheckPorts(_, _)
CheckPorts(ports, k) ==
    IF k > Len(ports) THEN [kind |-> "Ok"]
    ELSE IF ports[k] = 0 THEN [kind |-> "Err", error |-> "InvalidPort", port |-> ports[k]]
    ELSE CheckPorts(ports, k + 1)

\* Config::validate
Validate(c) ==
    IF Len(c.listen_ports) = 0 THEN [kind |-> "Err", error |-> "NoListenPorts"]
    ELSE IF Len(c.targets) = 0 THEN [kind |-> "Err", error |-> "NoTargets"]
    ELSE CheckPorts(c.listen_ports, 1)

\* The configuration the relay runs with: NumPorts ports, NumTargets targets.
FullConfig == [listen_ports |-> [r \in 1..NumPorts |-> 9000],
               targets |-> [s \in 1..NumTargets |-> "127.0.0.1:9001"]]

\* config.targets and config.listen_ports, by position in the lists.
Targets == 1..Len(config.targets)
Ports == 1..Len(config.listen_ports)

\* The JoinHandles of OscRepeater::run: the Senders' first, then the Receivers'.
NumHandles == Len(config.targets) + Len(config.listen_ports)

\* usize::next_power_of_two
RECURSIVE PowerOfTwoFrom(_, _)
PowerOfTwoFrom(k, n) == IF k >= n THEN k ELSE PowerOfTwoFrom(2 * k, n)
NextPowerOfTwo(n) == PowerOfTwoFrom(1, n)

\* broadcast::channel(capacity): tokio rounds the capacity up to a power of
\* two, and the channel retains that many of the latest values.
BufferLen == NextPowerOfTwo(Capacity)

\* The datagrams that may arrive: a frame as serialize writes it, a frame
\* followed by a further byte, and a frame cut after its address.
PlainDatagram == Serialize(OscMessage(<<47, 97>>, <<>>))
TrailingDatagram == Append(Serialize(OscMessage(<<47, 98>>, <<>>)), 97)
CutDatagram == SubSeq(PlainDatagram, 1, 4)
Datagrams == {PlainDatagram, TrailingDatagram, CutDatagram}

\* A slip: the handle created by the Sender itself, once it has its socket.
SubscribedInLoop(s) == senderPc[s] = "recv"

\* The live broadcast::Receiver handles (tail.rx_cnt): a handle is created by
\* subscribe() when its Sender is spawned and dropped when Sender::run returns.
Subscribed(s) == senderPc[s] \in {"bind", "connect", "recv"}
Handles == {s \in Targets : Subscribed(s)}

\* The Senders that are still opening their socket (bind, connect).
Opening == {s \in Targets : senderPc[s] \in {"bind", "connect"}}
RxCount == Cardinality(Handles)

\* The live broadcast::Sender: the Distributor is kept alive by the
\* OscRepeater and by the Arc clone each running Receiver task holds.
TxAlive == repeater \/ \E r \in Ports : receiverPc[r] \in {"bind", "loop"}

\* self.tx.subscribe(): the new handle reads from the position the next
\* stored payload will take.
DistributorSubscribe == Len(chan)

\* A slip: the payload stored although no handle is live.
DistributorSendKeeps(payload) == Append(chan, payload)

\* let _ = self.tx.send(payload): with no live handle tokio returns
\* Err(SendError) and stores nothing, and the error is ignored.
DistributorSend(payload) ==
    IF RxCount = 0 THEN chan ELSE Append(chan, payload)

\* The record kept of a publication, one entry per payload the channel stored.
Recorded(stored, entry) ==
    IF Len(stored) > Len(chan) THEN Append(published, entry) ELSE published

\* Slips in the receive path: the newest value returned whatever the handle's
\* position; an overwritten position skipped without the lag signal; a
\* position that is not advanced; a closed channel that is never reported.
RecvNewest(next) ==
    IF next < Len(chan)
    THEN [kind |-> "Ok", idx |-> next, payload |-> chan[Len(chan)], next |-> next + 1]
    ELSE IF ~TxAlive THEN [kind |-> "Closed"]
    ELSE [kind |-> "Pending"]

RecvSilentSkip(next) ==
    IF Len(chan) - next > BufferLen
    THEN [kind |-> "Ok", idx |-> Len(chan) - BufferLen,
          payload |-> chan[Len(chan) - BufferLen + 1], next |-> Len(chan) - BufferLen + 1]
    ELSE IF next < Len(chan)
    THEN [kind |-> "Ok", idx |-> next, payload |-> chan[next + 1], next |-> next + 1]
    ELSE IF ~TxAlive THEN [kind |-> "Closed"]
    ELSE [kind |-> "Pending"]

RecvNoAdvance(next) ==
    IF next < Len(chan)
    THEN [kind |-> "Ok", idx |-> next, payload |-> chan[next + 1],
          next |-> IF next = 0 THEN 1 ELSE next]
    ELSE IF ~TxAlive THEN [kind |-> "Closed"]
    ELSE [kind |-> "Pending"]

RecvNeverClosed(next) ==
    IF Len(chan) - next > BufferLen
    THEN [kind |-> "Lagged", missed |-> Len(chan) - BufferLen - next,
          next |-> Len(chan) - BufferLen]
    ELSE IF next < Len(chan)
    THEN [kind |-> "Ok", idx |-> next, payload |-> chan[next + 1], next |-> next + 1]
    ELSE [kind |-> "Pending"]

\* A slip: a full backlog taken for an overrun, one payload too early.
RecvLagsEarly(next) ==
    IF Len(chan) - next >= BufferLen /\ next < Len(chan)
    THEN [kind |-> "Lagged", missed |-> Len(chan) - BufferLen + 1 - next,
          next |-> Len(chan) - BufferLen + 1]
    ELSE IF next < Len(chan)
    THEN [kind |-> "Ok", idx |-> next, payload |-> chan[next + 1], next |-> next + 1]
    ELSE IF ~TxAlive THEN [kind |-> "Closed"]
    ELSE [kind |-> "Pending"]

\* A slip: the payload a view of its Receiver's buffer instead of a copy, so
\* that a receive reads what the buffer holds by then.
RecvShared(next) ==
    IF Len(chan) - next > BufferLen
    THEN [kind |-> "Lagged", missed |-> Len(chan) - BufferLen - next,
          next |-> Len(chan) - BufferLen]
    ELSE IF next < Len(chan)
    THEN [kind |-> "Ok", idx |-> next, next |-> next + 1,
          payload |-> Slice(buf[published[next + 1].port], 0, Len(chan[next + 1]))]
    ELSE IF ~TxAlive THEN [kind |-> "Closed"]
    ELSE [kind |-> "Pending"]

\* rx.recv() for a handle that reads position next: a lag signal when the
\* value at next has been overwritten, the value at next, the closed signal,
\* or nothing yet (the call stays pending).
Recv(next) ==
    IF Len(chan) - next > BufferLen
    THEN [kind |-> "Lagged", missed |-> Len(chan) - BufferLen - next,
          next |-> Len(chan) - BufferLen]
    ELSE IF next < Len(chan)
    THEN [kind |-> "Ok", idx |-> next, payload |-> chan[next + 1], next |-> next + 1]
    ELSE IF ~TxAlive THEN [kind |-> "Closed"]
    ELSE [kind |-> "Pending"]

\* socket.recv_from(&mut buf) writing datagram d over the start of the buffer.
RecvFrom(buffer, d) == d \o SubSeq(buffer, Len(d) + 1, Len(buffer))

\* A slip: the gate left out.
ValidAlways(buffer, len) == TRUE

\* Whether Receiver::run forwards the len bytes it has just received.
Valid(buffer, len) == Deserialize(Slice(buffer, 0, len)).kind # "Err"

\* A slip: the decoded message encoded again instead of the bytes received.
PayloadReencoded(buffer, len) ==
    LET m == Deserialize(Slice(buffer, 0, len)) IN Serialize(OscMessage(m.address, m.args))

\* let payload: OscPayload = Arc::from(&buf[..len]): a copy of the bytes.
PayloadOf(buffer, len) == Slice(buffer, 0, len)

\* A slip: only the Senders' handles are awaited.
TaskFinishedSendersOnly(k) ==
    IF k <= Len(config.targets) THEN senderPc[k] \in {"done", "failed"} ELSE TRUE

\* Whether the task behind the k-th JoinHandle has finished.
TaskFinished(k) ==
    IF k <= Len(config.targets) THEN senderPc[k] \in {"done", "failed"}
    ELSE receiverPc[k - Len(config.targets)] = "failed"

(***************************************************************************)
(* OscRepeater::run and main                                               *)
(***************************************************************************)
\* main: Config::load_from_file reads, parses and validates the file; on an
\* error main returns it, otherwise OscRepeater::new builds the Distributor
\* with its channel and run() is polled.
LoadConfig ==
    /\ run.pc = "load"
    /\ \/ /\ run' = [run EXCEPT !.pc = "config_error"]
          /\ UNCHANGED repeater
       \/ /\ Validate(config).kind = "Err"
          /\ run' = [run EXCEPT !.pc = "config_error"]
          /\ UNCHANGED repeater
       \/ /\ Validate(config).kind = "Ok"
          /\ run' = [run EXCEPT !.pc = "spawn_senders"]
          /\ repeater' = TRUE
    /\ UNCHANGED <<chan, published, senderPc, rxNext, senderLog, reused, receiverPc, buf,
                   receiverLast, receiverErrors, accepted, datagrams, faults>>
    /\ UNCHANGED <<config, codecVars>>

\* for sender in &self.distributor.senders: subscribe, then spawn.
SpawnSender ==
    /\ run.pc = "spawn_senders"
    /\ senderPc' = [senderPc EXCEPT ![run.i] = "bind"]
    /\ rxNext' = [rxNext EXCEPT ![run.i] = DistributorSubscribe]
    /\ run' = IF run.i < Len(config.targets) THEN [run EXCEPT !.i = run.i + 1]
              ELSE [pc |-> "spawn_receivers", i |-> 1]
    /\ UNCHANGED <<repeater, chan, published, senderLog, reused, receiverPc, buf, receiverLast,
                   receiverErrors, accepted, datagrams, faults>>
    /\ UNCHANGED <<config, codecVars>>

\* for &port in &self.config.listen_ports: clone the Arc, then spawn.
SpawnReceiver ==
    /\ run.pc = "spawn_receivers"
    /\ receiverPc' = [receiverPc EXCEPT ![run.i] = "bind"]
    /\ run' = IF run.i < Len(config.listen_ports) THEN [run EXCEPT !.i = run.i + 1]
              ELSE [pc |-> "await", i |-> 1]
    /\ UNCHANGED <<repeater, chan, published, senderPc, rxNext, senderLog, reused, buf, receiverLast,
                   receiverErrors, accepted, datagrams, faults>>
    /\ UNCHANGED <<config, codecVars>>

\* for handle in handles { handle.await?; } and Ok(()): no task panics, so
\* no await yields an error.
AwaitHandle ==
    /\ run.pc = "await"
    /\ TaskFinished(run.i)
    /\ run' = IF run.i < NumHandles THEN [run EXCEPT !.i = run.i + 1]
              ELSE [pc |-> "returned", i |-> run.i]
    /\ UNCHANGED <<repeater, chan, published, senderPc, rxNext, senderLog, reused, receiverPc, buf,
                   receiverLast, receiverErrors, accepted, datagrams, faults>>
    /\ UNCHANGED <<config, codecVars>>

\* main: Ctrl+C wins the select while run() waits; the run future is dropped
\* and, as main returns, so is the OscRepeater.  The spawned tasks live on.
CtrlC ==
    /\ run.pc = "await"
    /\ run' = [run EXCEPT !.pc = "cancelled"]
    /\ repeater' = FALSE
    /\ UNCHANGED <<chan, published, senderPc, rxNext, senderLog, reused, receiverPc, buf, receiverLast,
                   receiverErrors, accepted, datagrams, faults>>
    /\ UNCHANGED <<config, codecVars>>

\* main: run() returned Ok; main returns and drops the OscRepeater.
MainReturn ==
    /\ run.pc = "returned"
    /\ repeater
    /\ repeater' = FALSE
    /\ UNCHANGED <<run, chan, published, senderPc, rxNext, senderLog, reused, receiverPc, buf,
                   receiverLast, receiverErrors, accepted, datagrams, faults>>
    /\ UNCHANGED <<config, codecVars>>

(***************************************************************************)
(* Sender::run                                                             *)
(***************************************************************************)
\* UdpSocket::bind("0.0.0.0:0"): the socket, or an error and return.
SenderBind(s) ==
    /\ senderPc[s] = "bind"
    /\ \/ senderPc' = [senderPc EXCEPT ![s] = "connect"]
       \/ senderPc' = [senderPc EXCEPT ![s] = "failed"]
    /\ UNCHANGED <<run, repeater, chan, published, rxNext, senderLog, reused, receiverPc, buf,
                   receiverLast, receiverErrors, accepted, datagrams, faults>>
    /\ UNCHANGED <<config, codecVars>>

\* A slip: a failed connect that takes the other Senders down with it.
SenderConnectFatal(s) ==
    /\ senderPc[s] = "connect"
    /\ \/ senderPc' = [senderPc EXCEPT ![s] = "recv"]
       \/ senderPc' = [t \in Targets |-> "failed"]
    /\ UNCHANGED <<run, repeater, chan, published, rxNext, senderLog, reused, receiverPc, buf,
                   receiverLast, receiverErrors, accepted, datagrams, faults>>
    /\ UNCHANGED <<config, codecVars>>

\* socket.connect(self.target): success, or an error and return.
SenderConnect(s) ==
    /\ senderPc[s] = "connect"
    /\ \/ senderPc' = [senderPc EXCEPT ![s] = "recv"]
       \/ senderPc' = [senderPc EXCEPT ![s] = "failed"]
    /\ UNCHANGED <<run, repeater, chan, published, rxNext, senderLog, reused, receiverPc, buf,
                   receiverLast, receiverErrors, accepted, datagrams, faults>>
    /\ UNCHANGED <<config, codecVars>>

\* Whether the Receiver that published position idx now holds other bytes
\* in its buffer where that datagram was.
Overwritten(idx) ==
    /\ idx < Len(published)
    /\ LET e == published[idx + 1]
       IN Slice(buf[e.port], 0, Len(e.datagram)) # e.datagram

\* One iteration of the loop: rx.recv().await and the match on its result.
SenderRecv(s) ==
    /\ senderPc[s] = "recv"
    /\ LET got == Recv(rxNext[s]) IN
         \/ /\ got.kind = "Ok"
            /\ rxNext' = [rxNext EXCEPT ![s] = got.next]
            /\ reused' = [reused EXCEPT ![s] =
                  IF Overwritten(got.idx) THEN @ \cup {got.idx} ELSE @]
            /\ \/ /\ senderLog' = [senderLog EXCEPT ![s] =
                        Append(@, [ev |-> "sent", idx |-> got.idx, bytes |-> got.payload])]
                  /\ faults' = faults
               \/ /\ faults < MaxFaults
                  /\ senderLog' = [senderLog EXCEPT ![s] =
                        Append(@, [ev |-> "send_failed", idx |-> got.idx,
                                   bytes |-> got.payload])]
                  /\ faults' = faults + 1
            /\ senderPc' = senderPc
         \/ /\ got.kind = "Lagged"
            /\ rxNext' = [rxNext EXCEPT ![s] = got.next]
            /\ senderLog' = [senderLog EXCEPT ![s] =
                  Append(@, [ev |-> "lagged", missed |-> got.missed])]
            /\ UNCHANGED <<senderPc, reused, faults>>
         \/ /\ got.kind = "Closed"
            /\ senderPc' = [senderPc EXCEPT ![s] = "done"]
            /\ senderLog' = [senderLog EXCEPT ![s] = Append(@, [ev |-> "closed"])]
            /\ UNCHANGED <<rxNext, reused, faults>>
    /\ UNCHANGED <<run, repeater, chan, published, receiverPc, buf, receiverLast,
                   receiverErrors, accepted, datagrams>>
    /\ UNCHANGED <<config, codecVars>>

(***************************************************************************)
(* Receiver::run                                                           *)
(***************************************************************************)
\* UdpSocket::bind(&addr).await?: the socket, or the error returned.
ReceiverBind(r) ==
    /\ receiverPc[r] = "bind"
    /\ \/ receiverPc' = [receiverPc EXCEPT ![r] = "loop"]
       \/ receiverPc' = [receiverPc EXCEPT ![r] = "failed"]
    /\ UNCHANGED <<run, repeater, chan, published, senderPc, rxNext, senderLog, reused, buf,
                   receiverLast, receiverErrors, accepted, datagrams, faults>>
    /\ UNCHANGED <<config, codecVars>>

\* A slip: a recv_from error returned from the loop instead of continue.
ReceiverRecvErrorFatal(r) ==
    /\ receiverPc[r] = "loop"
    /\ faults < MaxFaults
    /\ faults' = faults + 1
    /\ receiverErrors' = [receiverErrors EXCEPT ![r] = @ + 1]
    /\ receiverLast' = [receiverLast EXCEPT ![r] = "recv_error"]
    /\ receiverPc' = [receiverPc EXCEPT ![r] = "failed"]
    /\ UNCHANGED <<run, repeater, chan, published, senderPc, rxNext, senderLog, reused,
                   buf, accepted, datagrams>>
    /\ UNCHANGED <<config, codecVars>>

\* socket.recv_from fails: the error is printed and the loop continues.
ReceiverRecvError(r) ==
    /\ receiverPc[r] = "loop"
    /\ faults < MaxFaults
    /\ faults' = faults + 1
    /\ receiverErrors' = [receiverErrors EXCEPT ![r] = @ + 1]
    /\ receiverLast' = [receiverLast EXCEPT ![r] = "recv_error"]
    /\ UNCHANGED <<run, repeater, chan, published, senderPc, rxNext, senderLog, reused, receiverPc,
                   buf, accepted, datagrams>>
    /\ UNCHANGED <<config, codecVars>>

\* One iteration of the loop on a datagram d: recv_from, deserialize as a
\* gate, and the payload sent to the distributor.
ReceiverDatagram(r) ==
    /\ receiverPc[r] = "loop"
    /\ datagrams < MaxDatagrams
    /\ datagrams' = datagrams + 1
    /\ \E d \in Datagrams :
         /\ Len(d) <= MAX_PACKET_SIZE
         /\ buf' = [buf EXCEPT ![r] = RecvFrom(@, d)]
         /\ IF Valid(buf'[r], Len(d))
            THEN /\ chan' = DistributorSend(PayloadOf(buf'[r], Len(d)))
                 /\ published' = Recorded(chan', [datagram |-> d, port |-> r,
                                                  handles |-> Handles])
                 /\ accepted' = accepted \cup {d}
                 /\ receiverLast' = [receiverLast EXCEPT ![r] = "forwarded"]
            ELSE /\ receiverLast' = [receiverLast EXCEPT ![r] = "rejected"]
                 /\ UNCHANGED <<chan, published, accepted>>
    /\ UNCHANGED <<run, repeater, senderPc, rxNext, senderLog, reused, receiverPc,
                   receiverErrors, faults>>
    /\ UNCHANGED <<config, codecVars>>

(***************************************************************************)
(* The specifications.                                                     *)
(***************************************************************************)
\* The relay as OscRepeater::new leaves it, before run() is polled.
RelayInit ==
    /\ config = FullConfig
    /\ run = [pc |-> "spawn_senders", i |-> 1]
    /\ repeater = TRUE
    /\ chan = <<>>
    /\ published = <<>>
    /\ senderPc = [s \in Targets |-> "unspawned"]
    /\ rxNext = [s \in Targets |-> 0]
    /\ senderLog = [s \in Targets |-> <<>>]
    /\ reused = [s \in Targets |-> {}]
    /\ receiverPc = [r \in Ports |-> "unspawned"]
    /\ buf = [r \in Ports |-> <<>>]
    /\ receiverLast = [r \in Ports |-> "none"]
    /\ receiverErrors = [r \in Ports |-> 0]
    /\ accepted = {}
    /\ datagrams = 0
    /\ faults = 0

\* No codec call of the test entry point is under way.
CodecIdle ==
    /\ message = OscMessage(<<>>, <<>>)
    /\ input = <<>>
    /\ decoded = NotDecoded
    /\ phase = "idle"
    /\ edits = 0

Init == CodecIdle /\ RelayInit

SenderStep(s) == SenderBind(s) \/ SenderConnect(s) \/ SenderRecv(s)

ReceiverStep(r) == ReceiverBind(r) \/ ReceiverRecvError(r) \/ ReceiverDatagram(r)

Next ==
    \/ SpawnSender
    \/ SpawnReceiver
    \/ AwaitHandle
    \/ CtrlC
    \/ MainReturn
    \/ \E s \in Targets : SenderStep(s)
    \/ \E r \in Ports : ReceiverStep(r)

Spec == Init /\ [][Next]_vars

\* tokio runs every task that can make progress.
FairSpec ==
    /\ Spec
    /\ \A s \in 1..NumTargets : WF_vars(SenderStep(s))

\* main before the configuration file is read, for any file contents.
MainInit ==
    /\ CodecIdle
    /\ config \in Configs
    /\ run = [pc |-> "load", i |-> 1]
    /\ repeater = FALSE
    /\ chan = <<>>
    /\ published = <<>>
    /\ senderPc = [s \in Targets |-> "unspawned"]
    /\ rxNext = [s \in Targets |-> 0]
    /\ senderLog = [s \in Targets |-> <<>>]
    /\ reused = [s \in Targets |-> {}]
    /\ receiverPc = [r \in Ports |-> "unspawned"]
    /\ buf = [r \in Ports |-> <<>>]
    /\ receiverLast = [r \in Ports |-> "none"]
    /\ receiverErrors = [r \in Ports |-> 0]
    /\ accepted = {}
    /\ datagrams = 0
    /\ faults = 0

MainNext == LoadConfig \/ Next

MainSpec == MainInit /\ [][MainNext]_vars

(***************************************************************************)
(* The library surface: a caller that holds the Arc<Distributor> and       *)
(* starts Senders (subscribe, then Sender::run) and Receivers              *)
(* (Receiver::new, then Receiver::run) in any order.                       *)
(***************************************************************************)
\* distributor.subscribe() and sender.run(rx) spawned, at any time.
StartSender(s) ==
    /\ senderPc[s] = "unspawned"
    /\ senderPc' = [senderPc EXCEPT ![s] = "bind"]
    /\ rxNext' = [rxNext EXCEPT ![s] = DistributorSubscribe]
    /\ UNCHANGED <<run, repeater, chan, published, senderLog, reused, receiverPc, buf,
                   receiverLast, receiverErrors, accepted, datagrams, faults>>
    /\ UNCHANGED <<config, codecVars>>

\* Receiver::new(port, distributor).run() spawned, at any time.
StartReceiver(r) ==
    /\ receiverPc[r] = "unspawned"
    /\ receiverPc' = [receiverPc EXCEPT ![r] = "bind"]
    /\ UNCHANGED <<run, repeater, chan, published, senderPc, rxNext, senderLog, reused, buf,
                   receiverLast, receiverErrors, accepted, datagrams, faults>>
    /\ UNCHANGED <<config, codecVars>>

LibraryInit == CodecIdle /\ RelayInit

LibraryNext ==
    \/ \E s \in Targets : StartSender(s)
    \/ \E r \in Ports : StartReceiver(r)
    \/ \E s \in Targets : SenderStep(s)
    \/ \E r \in Ports : ReceiverStep(r)

LibrarySpec == LibraryInit /\ [][LibraryNext]_vars

CodecInit ==
    /\ RelayInit
    /\ message \in Messages
    /\ input = <<>>
    /\ decoded = NotDecoded
    /\ phase = "new"
    /\ edits = 0

CodecNext == Encode \/ Decode

CodecSpec == CodecInit /\ [][CodecNext]_vars

\* Messages with an address and Strings of every length up to MaxTextLen, in
\* every mix of Int, Float, String and Bool arguments.
AddrText(n) == [i \in 1..n |-> IF i = 1 THEN 47 ELSE 97]
StrText(n) == [i \in 1..n |-> 97]
LengthArgVals ==
    {ArgInt(101), ArgFloat([sign |-> 0, exp |-> 128, mant |-> 4781507]),
     ArgBool(TRUE), ArgBool(FALSE)}
        \cup {ArgString(StrText(n)) : n \in 0..MaxTextLen}
LengthMessages ==
    {OscMessage(AddrText(n), args) :
        n \in 0..MaxTextLen, args \in SeqsUpTo(LengthArgVals, MaxArgs)}

LengthInit ==
    /\ RelayInit
    /\ message \in LengthMessages
    /\ input = <<>>
    /\ decoded = NotDecoded
    /\ phase = "new"
    /\ edits = 0

LengthSpec == LengthInit /\ [][CodecNext]_vars

\* Frames the malformed inputs are derived from.
BaseMessages ==
    { OscMessage(<<47, 116, 101, 115, 116>>, <<ArgInt(101)>>),
      OscMessage(<<47, 97>>, <<>>),
      OscMessage(<<47, 97>>,
                 <<ArgFloat([sign |-> 1, exp |-> 135, mant |-> 6579454]),
                   ArgString(<<97>>), ArgBool(TRUE)>>),
      OscMessage(<<47, 97>>, <<ArgString(<<97, 97, 97>>), ArgInt(-123), ArgBool(FALSE)>>) }

DecodeInit ==
    /\ RelayInit
    /\ message \in BaseMessages
    /\ input = <<>>
    /\ decoded = NotDecoded
    /\ phase = "new"
    /\ edits = 0

DecodeNext == Encode \/ Truncate \/ SetByte \/ AppendByte \/ Decode

DecodeSpec == DecodeInit /\ [][DecodeNext]_vars


(***************************************************************************)
(* Claims about the codec.                                                 *)
(***************************************************************************)
StringArgs(m) == {m.args[k].str : k \in {j \in 1..Len(m.args) : m.args[j].tag = "String"}}

\* A message whose address and String arguments hold no U+0000.
NulFree(m) == NUL \notin Range(m.address) /\ \A str \in StringArgs(m) : NUL \notin Range(str)

RoundTrips == decoded = Ok(message.address, message.args)

\* C1 as stated: every message with a non-empty address, whatever its
\* arguments, is returned unchanged by deserialize(serialize(m)).
C1_RoundTripEveryMessage ==
    (phase = "decoded" /\ message.address # <<>>) => RoundTrips

\* C1 as amended: a message with a non-empty address, in which neither the
\* address nor a String argument holds a NUL character, is returned by
\* deserialize(serialize(m)) with the same address and the same arguments, in
\* order, variants and values (negative numbers included).
C1_RoundTrip ==
    (phase = "decoded" /\ message.address # <<>> /\ NulFree(message)) => RoundTrips

\* A negative integer and a string went through serialize and deserialize.
C1_Witness ==
    /\ phase = "decoded"
    /\ message.address = <<47, 97>>
    /\ message.args = <<ArgInt(-123), ArgString(<<97>>)>>
    /\ decoded.kind = "Ok"

(* What makes an input malformed, stated on the bytes themselves.          *)
NullsFrom(d, p) == {i \in p..(Len(d) - 1) : d[i + 1] = NUL}
HasNullFrom(d, p) == NullsFrom(d, p) # {}
FirstNullFrom(d, p) == CHOOSE i \in NullsFrom(d, p) : \A j \in NullsFrom(d, p) : i <= j

\* The offset of the type-tag section, of its terminator, and the tags.
TagOffset(d) == Align4(FirstNullFrom(d, 0) + 1)
TagEnd(d) == FirstNullFrom(d, TagOffset(d) + 1)
TagsOf(d) == [k \in 1..(TagEnd(d) - TagOffset(d) - 1) |-> d[TagOffset(d) + 1 + k]]

NoAddressTerminator(d) == ~HasNullFrom(d, 0)
EmptyAddress(d) == Len(d) > 0 /\ d[1] = NUL
AddressOk(d) == Len(d) >= 4 /\ HasNullFrom(d, 0) /\ ~EmptyAddress(d)
NoComma(d) == AddressOk(d) /\ (TagOffset(d) >= Len(d) \/ d[TagOffset(d) + 1] # COMMA)
TagsUnterminated(d) == AddressOk(d) /\ ~NoComma(d) /\ ~HasNullFrom(d, TagOffset(d) + 1)
TagsOk(d) == AddressOk(d) /\ ~NoComma(d) /\ ~TagsUnterminated(d)

\* Whether the argument of tag t that starts at offset p is malformed.
BadArg(d, t, p) ==
    CASE t \in {TAG_i, TAG_f} -> Len(d) - p < 4
      [] t = TAG_s -> ~HasNullFrom(d, p)
      [] t \in {TAG_T, TAG_F} -> FALSE
      [] OTHER -> TRUE

\* The offset at which the k-th argument starts, or -1 when an argument
\* before it is malformed.
RECURSIVE ArgStart(_, _)
ArgStart(d, k) ==
    IF k = 1 THEN Align4(TagEnd(d) + 1)
    ELSE LET p == ArgStart(d, k - 1)
             t == TagsOf(d)[k - 1]
         IN IF p = -1 \/ BadArg(d, t, p) THEN -1
            ELSE IF t \in {TAG_i, TAG_f} THEN p + 4
            ELSE IF t = TAG_s THEN Align4(FirstNullFrom(d, p) + 1)
            ELSE p

\* The k-th tag is of kind `tags` and its argument is the first malformed one.
FirstBadArg(d, tags) ==
    TagsOk(d) /\ \E k \in 1..Len(TagsOf(d)) :
        /\ TagsOf(d)[k] \in tags
        /\ ArgStart(d, k) # -1
        /\ BadArg(d, TagsOf(d)[k], ArgStart(d, k))

UnknownTag(d) ==
    TagsOk(d) /\ \E k \in 1..Len(TagsOf(d)) :
        TagsOf(d)[k] \notin {TAG_i, TAG_f, TAG_s, TAG_T, TAG_F}

Malformed(d) ==
    \/ Len(d) = 0
    \/ Len(d) < 4
    \/ NoAddressTerminator(d)
    \/ EmptyAddress(d)
    \/ NoComma(d)
    \/ TagsUnterminated(d)
    \/ FirstBadArg(d, {TAG_i, TAG_f})
    \/ FirstBadArg(d, {TAG_s})
    \/ UnknownTag(d)

\* C2: deserialize returns a message or an error for every input and never
\* reads at or past the end of the input (which would panic); it returns an
\* error for empty input, for fewer than 4 bytes, for an address with no
\* terminator, for an empty address, for a byte other than ',' at the
\* type-tag offset, for an unterminated type-tag string, for an 'i' or 'f'
\* tag with fewer than 4 bytes left, for an 's' tag with no terminating
\* NUL, and for a tag outside i, f, s, T, F.
C2_MalformedRejected ==
    phase = "decoded" =>
        /\ decoded.kind \in {"Ok", "Err"}
        /\ Malformed(input) => decoded.kind = "Err"

\* An 'i' tag whose four bytes were cut short was rejected.
C2_Witness ==
    /\ phase = "decoded"
    /\ edits = 1
    /\ FirstBadArg(input, {TAG_i, TAG_f})
    /\ decoded = Err("IntDataMissing")


(***************************************************************************)
(* Claims about the relay.                                                 *)
(***************************************************************************)
IsPayload(e) == e.ev \in {"sent", "send_failed"}

\* The positions in a Sender's log at which it received a payload.
PayloadAt(s) == {j \in 1..Len(senderLog[s]) : IsPayload(senderLog[s][j])}

\* The positions at which it received the payload published k-th (from 0).
Hits(s, k) == {j \in PayloadAt(s) : senderLog[s][j].idx = k}

\* How far one log entry moves the handle: one payload, or the values missed.
Advance(e) == IF IsPayload(e) THEN 1 ELSE IF e.ev = "lagged" THEN e.missed ELSE 0

\* The position the handle of s read next after the first j entries of its
\* log; every handle is created on an empty channel, at position 0.
RECURSIVE CursorAfter(_, _)
CursorAfter(s, j) == IF j = 0 THEN 0 ELSE CursorAfter(s, j - 1) + Advance(senderLog[s][j])

\* The positions a lag signal made the handle of s skip.
Skipped(s) ==
    UNION { CursorAfter(s, j - 1)..(CursorAfter(s, j) - 1) :
              j \in {i \in 1..Len(senderLog[s]) : senderLog[s][i].ev = "lagged"} }

Unread(s) == Len(chan) - rxNext[s]

LastOf(log) == log[Len(log)]

\* A step in which Sender s got something from rx.recv().
Received(s) == Len(senderLog'[s]) = Len(senderLog[s]) + 1

\* C3: with N handles on the channel and a payload then published, each handle
\* that reads the payload's position receives exactly that payload's bytes,
\* once, and a handle with an unread payload can receive whatever state the
\* other handles are in.
C3_FanOut ==
    \A s \in Targets :
        /\ \A k \in 0..(Len(chan) - 1) :
             /\ Cardinality(Hits(s, k)) <= 1
             /\ \A j \in Hits(s, k) : senderLog[s][j].bytes = chan[k + 1]
             /\ (Subscribed(s) /\ rxNext[s] > k /\ k \notin Skipped(s)) => Hits(s, k) # {}
        /\ (senderPc[s] = "recv" /\ Unread(s) > 0) => ENABLED SenderRecv(s)

\* One payload was published with both handles live, and both got its bytes.
C3_Witness ==
    /\ Len(chan) = 1
    /\ \A s \in Targets :
         senderLog[s] = <<[ev |-> "sent", idx |-> 0, bytes |-> chan[1]]>>

\* The payload positions of a log are in publication order, each with the
\* bytes published at its position, and a position is passed over only by a
\* lag signal.
InOrder(s) ==
    /\ \A j \in PayloadAt(s) :
         /\ senderLog[s][j].idx = CursorAfter(s, j - 1)
         /\ senderLog[s][j].idx < Len(chan)
         /\ senderLog[s][j].bytes = chan[senderLog[s][j].idx + 1]
    /\ Subscribed(s) => rxNext[s] = CursorAfter(s, Len(senderLog[s]))

\* C4 (state part): a lag signal stands for at least one evicted payload, the
\* evicted payloads appear nowhere in the log (they are not transmitted), the
\* receives after it start at the oldest payload retained and go on in
\* order; a log without a lag signal holds every payload up to the handle's
\* position.
C4_LagState ==
    \A s \in Targets :
        /\ InOrder(s)
        /\ \A j \in 1..Len(senderLog[s]) :
             senderLog[s][j].ev = "lagged" => senderLog[s][j].missed >= 1
        /\ \A k \in Skipped(s) : Hits(s, k) = {}
        /\ (Skipped(s) = {} /\ Subscribed(s)) =>
               \A k \in 0..(rxNext[s] - 1) : Hits(s, k) # {}

\* C4 (step part): a receive by a handle with more unread payloads than the
\* channel retains yields the lag signal, counting the evicted payloads and
\* moving to the oldest one retained; a receive by a handle with no more
\* unread payloads than that yields the next payload, never a lag signal,
\* wherever the other handles are.
C4_LagStep ==
    \A s \in Targets : Received(s) =>
        LET e == LastOf(senderLog'[s]) IN
        /\ Unread(s) > BufferLen =>
              /\ e = [ev |-> "lagged", missed |-> Unread(s) - BufferLen]
              /\ rxNext'[s] = Len(chan) - BufferLen
        /\ (Unread(s) >= 1 /\ Unread(s) <= BufferLen) =>
              /\ IsPayload(e)
              /\ e.idx = rxNext[s]
              /\ e.bytes = chan[rxNext[s] + 1]

C6_GateState ==
    /\ \A k \in 1..Len(chan) :
         /\ chan[k] \in accepted
         /\ Deserialize(chan[k]).kind = "Ok"
    /\ \A d \in accepted : d \in Datagrams /\ Deserialize(d).kind = "Ok"
    /\ \A d \in Datagrams : Deserialize(d).kind = "Err" => d \notin Range(chan)

\* C6 (step part): an iteration that ends in a rejection publishes nothing,
\* and a publication appends exactly one accepted datagram as it arrived.
C6_GateStep ==
    /\ \A r \in Ports :
         (datagrams' # datagrams /\ receiverLast'[r] = "rejected"
              /\ receiverPc[r] = "loop" /\ buf'[r] # buf[r]) => chan' = chan
    /\ chan' # chan =>
         \E d \in Datagrams :
              /\ Deserialize(d).kind = "Ok"
              /\ chan' = Append(chan, d)
              /\ \E r \in Ports : receiverLast'[r] = "forwarded" /\ Len(buf'[r]) >= Len(d)
                                   /\ SubSeq(buf'[r], 1, Len(d)) = d

\* C6: the validation gate of Receiver::run.
C6_ValidationGate == [](C6_GateState) /\ [][C6_GateStep]_vars

\* A Listener has forwarded the datagram with a trailing byte as it arrived,
\* and a Listener has rejected the cut datagram.
C6_Witness ==
    /\ TrailingDatagram \in Range(chan)
    /\ \E r \in Ports : receiverLast[r] = "rejected"
    /\ CutDatagram \notin Range(chan)

SenderRunning(s) == senderPc[s] \in {"bind", "connect", "recv"}
ReceiverRunning(r) == receiverPc[r] \in {"bind", "loop"}

\* Sender s and Receiver r are left as they are by a step.
SenderUntouched(s) ==
    /\ senderPc'[s] = senderPc[s]
    /\ rxNext'[s] = rxNext[s]
    /\ senderLog'[s] = senderLog[s]
ReceiverUntouched(r) ==
    /\ receiverPc'[r] = receiverPc[r]
    /\ buf'[r] = buf[r]
    /\ receiverLast'[r] = receiverLast[r]
    /\ receiverErrors'[r] = receiverErrors[r]

\* A Sender in its loop with a payload to read can take its next iteration,
\* and a Receiver in its loop can take a datagram, whatever the other tasks
\* have come to.
LoopsCanProceed ==
    /\ \A s \in Targets : (senderPc[s] = "recv" /\ Unread(s) > 0) => ENABLED SenderRecv(s)
    /\ \A r \in Ports :
         (receiverPc[r] = "loop" /\ datagrams < MaxDatagrams) => ENABLED ReceiverDatagram(r)

\* C7 (step part): a step in which a Sender fails to bind or connect, or a
\* Receiver fails to bind, ends that task and touches no other task, the
\* channel or the supervisor; a failed task is never started again; and no
\* step of the supervisor ends or restarts a task.
C7_FailureStep ==
    /\ \A s \in Targets :
         (SenderRunning(s) /\ senderPc'[s] = "failed") =>
              /\ \A o \in Targets \ {s} : SenderUntouched(o)
              /\ \A r \in Ports : ReceiverUntouched(r)
              /\ UNCHANGED <<chan, run, repeater>>
    /\ \A r \in Ports :
         (ReceiverRunning(r) /\ receiverPc'[r] = "failed") =>
              /\ \A o \in Ports \ {r} : ReceiverUntouched(o)
              /\ \A s \in Targets : SenderUntouched(s)
              /\ UNCHANGED <<chan, run, repeater>>
    /\ \A s \in Targets : senderPc[s] = "failed" => senderPc'[s] = "failed"
    /\ \A r \in Ports : receiverPc[r] = "failed" => receiverPc'[r] = "failed"
    /\ run' # run =>
         /\ \A s \in Targets : senderPc[s] # "unspawned" => SenderUntouched(s)
         /\ \A r \in Ports : receiverPc[r] # "unspawned" => ReceiverUntouched(r)

\* C7: a setup failure ends only the task it happens in; the other Senders
\* and Receivers go on, and the supervisor neither restarts the failed task
\* nor stops the others.
C7_SetupFailureIsolation == [](LoopsCanProceed) /\ [][C7_FailureStep]_vars

\* One Sender and one Receiver failed their setup; the other Receiver has
\* forwarded a datagram and the other Sender has transmitted it.
C7_Witness ==
    \E s, o \in Targets : \E r, q \in Ports :
        /\ senderPc[s] = "failed"
        /\ receiverPc[r] = "failed"
        /\ receiverLast[q] = "forwarded"
        /\ senderPc[o] = "recv"
        /\ senderLog[o] # <<>>
        /\ LastOf(senderLog[o]).ev = "sent"

\* C8 (state part): a Sender whose latest transmit failed and a Receiver
\* whose latest recv_from failed are still in their loops.
C8_StillLooping ==
    /\ \A s \in Targets :
         (senderLog[s] # <<>> /\ LastOf(senderLog[s]).ev = "send_failed") =>
              senderPc[s] = "recv"
    /\ \A r \in Ports : receiverLast[r] = "recv_error" => receiverPc[r] = "loop"
    /\ \A r \in Ports : receiverErrors[r] > 0 => receiverPc[r] = "loop"

\* C8 (step part): a failed transmit and a failed recv_from leave the task
\* in its loop and touch no other task, the channel or the supervisor.
C8_ErrorStep ==
    /\ \A s \in Targets :
         (Received(s) /\ LastOf(senderLog'[s]).ev = "send_failed") =>
              /\ senderPc'[s] = "recv"
              /\ \A o \in Targets \ {s} : SenderUntouched(o)
              /\ \A r \in Ports : ReceiverUntouched(r)
              /\ UNCHANGED <<chan, run, repeater>>
    /\ \A r \in Ports :
         receiverErrors'[r] # receiverErrors[r] =>
              /\ receiverPc'[r] = "loop"
              /\ buf'[r] = buf[r]
              /\ \A o \in Ports \ {r} : ReceiverUntouched(o)
              /\ \A s \in Targets : SenderUntouched(s)
              /\ UNCHANGED <<chan, run, repeater>>

\* C8: transient errors do not stop a loop: after them the task is in its
\* loop, able to take the next payload or datagram, and no other task is
\* affected.
C8_TransientErrors ==
    [](C8_StillLooping /\ LoopsCanProceed) /\ [][C8_ErrorStep]_vars

\* A Sender's transmit failed and it transmitted the next payload.
C8_Witness ==
    \E s \in Targets :
        /\ Len(senderLog[s]) >= 2
        /\ senderLog[s][1].ev = "send_failed"
        /\ senderLog[s][2] = [ev |-> "sent", idx |-> 1, bytes |-> chan[2]]

\* A Receiver's recv_from failed and it forwarded the next datagram.
C8_ReceiverCase ==
    \E r \in Ports : receiverErrors[r] = 1 /\ receiverLast[r] = "forwarded"

\* The channel is torn down: no broadcast::Sender is left.
Closed == ~TxAlive

AllSendersEnded == \A s \in Targets : senderPc[s] \in {"done", "failed"}

\* C9 (state part): a Sender ended by the closed signal has it as the last
\* entry of its log, so it receives nothing after it, and only such a Sender
\* is done; on a closed channel no Sender in its loop is left waiting.
C9_ClosedState ==
    \A s \in Targets :
        /\ \A j \in 1..Len(senderLog[s]) :
             senderLog[s][j].ev = "closed" => j = Len(senderLog[s])
        /\ senderPc[s] = "done" <=>
             (senderLog[s] # <<>> /\ LastOf(senderLog[s]).ev = "closed")
        /\ (Closed /\ senderPc[s] = "recv") => ENABLED SenderRecv(s)

\* C9 (step part): a closed channel stays closed and takes no further
\* payload; a receive on it with nothing unread yields the closed signal and
\* ends the loop; a Sender that is done stays done.
C9_ClosedStep ==
    /\ Closed => (Closed' /\ chan' = chan)
    /\ \A s \in Targets :
         /\ (Closed /\ Received(s) /\ Unread(s) = 0) =>
                (LastOf(senderLog'[s]).ev = "closed" /\ senderPc'[s] = "done")
         /\ senderPc[s] = "done" => SenderUntouched(s)

C10_SupervisorLifetime ==
    /\ run.pc \in {"await", "returned", "cancelled"} =>
         /\ \A s \in Targets : senderPc[s] # "unspawned"
         /\ \A r \in Ports : receiverPc[r] # "unspawned"
    /\ run.pc = "returned" =>
         /\ \A s \in Targets : ~SenderRunning(s)
         /\ \A r \in Ports : ~ReceiverRunning(r)

\* run has returned Ok.
C10_Witness ==
    /\ run.pc = "returned"
    /\ \A s \in Targets : senderPc[s] = "failed"
    /\ \A r \in Ports : receiverPc[r] = "failed"

(***************************************************************************)
(* The channel seen from its callers.                                      *)
(***************************************************************************)
\* The payload entries of a log.
PayloadEntries(s) == {senderLog[s][j] : j \in PayloadAt(s)}

\* C11 (state part): the channel stores a payload only when a handle is live
\* at the publish; a handle receives only payloads published while it was
\* live, so none that was discarded and none from before its subscribe; and
\* a Listener that forwarded a datagram is in its loop, able to take the next.
C11_DiscardState ==
    /\ Len(published) = Len(chan)
    /\ \A p \in 1..Len(published) : published[p].handles # {}
    /\ \A s \in Targets : \A e \in PayloadEntries(s) :
         /\ e.idx < Len(published)
         /\ s \in published[e.idx + 1].handles
    /\ \A r \in Ports :
         /\ receiverLast[r] = "forwarded" => receiverPc[r] = "loop"
         /\ (receiverPc[r] = "loop" /\ datagrams < MaxDatagrams) =>
              ENABLED ReceiverDatagram(r)

\* C11 (step part): a datagram that arrives while no handle is live leaves
\* the channel and every task's position as they are.
C11_DiscardStep ==
    (datagrams' # datagrams /\ RxCount = 0) =>
        /\ chan' = chan
        /\ receiverPc' = receiverPc
        /\ senderPc' = senderPc
        /\ senderLog' = senderLog

\* C11: a publish with no live handle is discarded without an error reaching
\* the Listener, which goes on, and no handle subscribed later receives it.
C11_PublishWithNoSubscribers == [](C11_DiscardState) /\ [][C11_DiscardStep]_vars

\* A datagram passed the gate and was discarded (it is not in the channel);
\* a Sender that subscribed afterwards has received a later payload.
C11_Witness ==
    /\ Len(chan) = 1
    /\ \E d \in accepted : d \notin Range(chan)
    /\ \E s \in Targets :
         /\ senderPc[s] = "recv"
         /\ senderLog[s] = <<[ev |-> "sent", idx |-> 0, bytes |-> chan[1]]>>

(***************************************************************************)
(* The configuration gate.                                                 *)
(***************************************************************************)
\* A configuration the program must not run with.
Invalid(c) ==
    \/ c.listen_ports = <<>>
    \/ c.targets = <<>>
    \/ 0 \in Range(c.listen_ports)

NothingStarted ==
    /\ ~repeater
    /\ \A s \in Targets : senderPc[s] = "unspawned"
    /\ \A r \in Ports : receiverPc[r] = "unspawned"

\* C12: Config::validate returns an error exactly for a configuration with
\* no listen port, no target or a listen port 0, and after a configuration
\* error there is no OscRepeater and no Sender or Receiver task.
C12_ConfigGate ==
    /\ Validate(config).kind = "Err" <=> Invalid(config)
    /\ Invalid(config) => (run.pc \in {"load", "config_error"} /\ NothingStarted)
    /\ run.pc = "config_error" => NothingStarted

\* main has returned the error of a configuration whose second port is 0.
C12_Witness ==
    /\ run.pc = "config_error"
    /\ config.listen_ports = <<9000, 0>>
    /\ config.targets # <<>>

(***************************************************************************)
(* The layout of a frame.                                                  *)
(***************************************************************************)
\* The offset at which serialize writes the ',' and the offset at which it
\* starts the data of the k-th argument: the buffer's length at that point.
CommaOffset(m) == Len(AddressSection(m))
ArgOffset(m, k) == Len(PushArgs(TypeTagSection(m), SubSeq(m.args, 1, k - 1), 1))

\* The bytes the frame holds at an argument's offset are that argument's.
ArgBytesAt(frame, off, arg) ==
    CASE arg.tag = "Int" -> SubSeq(frame, off + 1, off + 4) = I32ToBeBytes(arg.int)
      [] arg.tag = "Float" -> SubSeq(frame, off + 1, off + 4) = F32ToBeBytes(arg.float)
      [] arg.tag = "String" ->
            SubSeq(frame, off + 1, off + Len(arg.str) + 1) = Append(arg.str, NUL)
      [] arg.tag = "Bool" -> TRUE

\* C13: in every frame serialize produces, the offset of the ',' that starts
\* the type-tag section and the offset at which each argument's data starts
\* are multiples of 4 (and so is the frame's length), whatever the lengths of
\* the address and the Strings and the mix of arguments.
C13_Alignment ==
    phase \in {"encoded", "decoded"} =>
        /\ CommaOffset(message) % 4 = 0
        /\ input[CommaOffset(message) + 1] = COMMA
        /\ \A k \in 1..Len(message.args) :
             /\ ArgOffset(message, k) % 4 = 0
             /\ ArgOffset(message, k) <= Len(input)
             /\ ArgBytesAt(input, ArgOffset(message, k), message.args[k])
        /\ Len(input) % 4 = 0

\* A frame whose address fills a 4-byte word only with its terminator, and
\* whose second argument follows a String of two characters.
C13_Witness ==
    /\ phase = "encoded"
    /\ Len(message.address) = 3
    /\ Len(message.args) = 2
    /\ message.args[1] = ArgString(StrText(2))
    /\ message.args[2] = ArgInt(101)
    /\ ArgOffset(message, 2) = 12

(***************************************************************************)
(* A frame byte by byte.                                                   *)
(***************************************************************************)
\* "/test" with the single argument Int(101), and the 16 bytes
\* 2F 74 65 73 74 00 00 00 2C 69 00 00 00 00 00 65.
TestMessage == OscMessage(<<47, 116, 101, 115, 116>>, <<ArgInt(101)>>)
TestFrame == <<47, 116, 101, 115, 116, 0, 0, 0, 44, 105, 0, 0, 0, 0, 0, 101>>

\* C14: serialize turns "/test" with Int(101) into exactly those 16 bytes,
\* and deserialize turns those bytes into "/test" with Int(101).
C14_EndToEndExample ==
    /\ (message = TestMessage /\ phase # "new" /\ edits = 0) => input = TestFrame
    /\ (input = TestFrame /\ phase = "decoded") =>
          decoded = Ok(<<47, 116, 101, 115, 116>>, <<ArgInt(101)>>)

\* The example message has been serialized and the frame deserialized.
C14_Witness ==
    /\ message = TestMessage
    /\ phase = "decoded"
    /\ edits = 0
    /\ input = TestFrame
    /\ decoded.kind = "Ok"

\* The message with its k-th argument, a Bool, negated.
Flip(m, k) == [m EXCEPT !.args[k].bool = ~@]

\* The offsets at which two frames differ.
DiffOffsets(f, g) == {i \in 0..(Len(f) - 1) : i >= Len(g) \/ f[i + 1] # g[i + 1]}

\* C15: the frames of a message with a Bool argument and of the same message
\* with the Bool negated have the same length and differ in exactly one byte,
\* the Bool's tag ('T' or 'F'); the Bool takes no bytes of the argument
\* section: the data written next starts where the Bool's would.
C15_BoolZeroPayload ==
    phase = "encoded" =>
        \A k \in 1..Len(message.args) :
            message.args[k].tag = "Bool" =>
                LET other == Serialize(Flip(message, k))
                    tagAt == CommaOffset(message) + k
                IN /\ Len(other) = Len(input)
                   /\ DiffOffsets(input, other) = {tagAt}
                   /\ input[tagAt + 1] = IF message.args[k].bool THEN TAG_T ELSE TAG_F
                   /\ other[tagAt + 1] = IF message.args[k].bool THEN TAG_F ELSE TAG_T
                   /\ ArgOffset(message, k + 1) = ArgOffset(message, k)

\* A message with the single argument Bool(true) has been serialized: the
\* frame is the address section and the four bytes ",T\0\0".
C15_Witness ==
    /\ phase = "encoded"
    /\ message = OscMessage(AddrText(4), <<ArgBool(TRUE)>>)
    /\ input = <<47, 97, 97, 97, 0, 0, 0, 0, 44, 84, 0, 0>>

(***************************************************************************)
(* Payloads and the receive buffer.                                        *)
(***************************************************************************)
\* C16: a payload in the channel, and every payload a Sender has taken from
\* it, holds the bytes of the datagram it was created from, whatever its
\* Receiver's buffer has come to hold since.
C16_PayloadImmutable ==
    /\ \A p \in 1..Len(chan) : chan[p] = published[p].datagram
    /\ \A s \in Targets : \A e \in PayloadEntries(s) :
         e.bytes = published[e.idx + 1].datagram

\* A Sender took a payload after its Receiver's buffer had been overwritten
\* with another datagram, and transmitted the original bytes.
C16_Witness ==
    \E s \in Targets : \E idx \in reused[s] :
        /\ Overwritten(idx)
        /\ [ev |-> "sent", idx |-> idx, bytes |-> published[idx + 1].datagram]
              \in PayloadEntries(s)

(***************************************************************************)
(* The order of subscribe and publish in OscRepeater::run.                 *)
(***************************************************************************)
\* C17 (state part): no Receiver is started before every Sender has its
\* handle; every payload was published with the handle of every Sender that
\* is still running; a Sender that is opening its socket has received
\* nothing and has every published payload in its backlog; a Sender in its
\* loop with a backlog can receive; and every position a Sender is past was
\* received by it or skipped by a lag signal.
C17_SubscribedState ==
    /\ (\E r \in Ports : receiverPc[r] # "unspawned") =>
          \A s \in Targets : senderPc[s] # "unspawned"
    /\ \A p \in 1..Len(published) : \A s \in Targets :
          SenderRunning(s) => s \in published[p].handles
    /\ \A s \in Opening : rxNext[s] = 0 /\ senderLog[s] = <<>>
    /\ \A s \in Targets :
          /\ (senderPc[s] = "recv" /\ Unread(s) > 0) => ENABLED SenderRecv(s)
          /\ \A p \in 0..(rxNext[s] - 1) : Hits(s, p) # {} \/ p \in Skipped(s)

\* C17 (step part): entering the loop keeps the backlog, and the first
\* receive of a Sender yields the first payload published, or a lag signal
\* when it has been evicted.
C17_BacklogStep ==
    \A s \in Targets :
        /\ (s \in Opening /\ senderPc'[s] = "recv") =>
              (rxNext'[s] = 0 /\ chan' = chan)
        /\ (senderLog[s] = <<>> /\ Received(s) /\ chan # <<>>) =>
              LET e == senderLog'[s][1]
              IN IF Len(chan) <= BufferLen
                 THEN IsPayload(e) /\ e.idx = 0 /\ e.bytes = chan[1]
                 ELSE e.ev = "lagged" /\ e.missed = Len(chan) - BufferLen

\* C17: every handle exists before any Receiver runs, so every payload is
\* published to all Senders, and what is published while a Sender opens its
\* socket waits in its backlog until its loop receives it, lag apart.
C17_SubscribeBeforePublish ==
    [](C17_SubscribedState) /\ [][C17_BacklogStep]_vars

\* A payload was published, and received by one Sender, while the other
\* Sender is still connecting its socket; it is in that Sender's backlog.
C17_Witness ==
    \E s, o \in Targets :
        /\ senderPc[s] = "connect"
        /\ Len(chan) = 1
        /\ Unread(s) = 1
        /\ s \in published[1].handles
        /\ senderLog[o] = <<[ev |-> "sent", idx |-> 0, bytes |-> chan[1]]>>

(***************************************************************************)
(* Bytes after the last argument.                                          *)
(***************************************************************************)
\* The bytes that may follow a frame in a datagram.
Tails == SeqsUpTo(EditBytes, MaxTailLen) \ {<<>>}

\* A receive buffer that earlier, longer datagrams have filled.
UsedBuffer == [i \in 1..(Len(input) + MaxTailLen + 2) |-> 255]

\* C20: bytes that deserialize accepted are accepted with any further bytes
\* after them and give the same message; a Receiver that gets such a
\* datagram passes it through its gate and publishes all of it, the
\* trailing bytes included.
C20_TrailingBytesAccepted ==
    (phase = "decoded" /\ decoded.kind = "Ok") =>
        \A t \in Tails :
            LET d == input \o t
                buffer == RecvFrom(UsedBuffer, d)
            IN /\ Deserialize(d) = decoded
               /\ Valid(buffer, Len(d))
               /\ PayloadOf(buffer, Len(d)) = d

\* A frame followed by one further byte was decoded to the message of the
\* frame alone.
C20_Witness ==
    /\ phase = "decoded"
    /\ edits = 1
    /\ input = Append(Serialize(message), 255)
    /\ decoded = Ok(message.address, message.args)

(***************************************************************************)
(* What the Senders put on the wire.                                       *)
(***************************************************************************)
\* The entries of a log for datagrams the Sender transmitted.
Transmitted(s) == {j \in 1..Len(senderLog[s]) : senderLog[s][j].ev = "sent"}

\* C19 (state part): every datagram a Sender transmitted is, byte for byte,
\* a datagram that arrived at a Receiver and passed deserialize, and no
\* Sender has two entries for one published payload.
C19_OutputState ==
    \A s \in Targets :
        /\ \A j \in Transmitted(s) :
             /\ senderLog[s][j].bytes \in accepted
             /\ senderLog[s][j].bytes \in Datagrams
             /\ Deserialize(senderLog[s][j].bytes).kind = "Ok"
        /\ \A p \in 0..(Len(chan) - 1) : Cardinality(Hits(s, p)) <= 1
        /\ Cardinality(PayloadAt(s)) <= Len(chan)

\* C19 (step part): the datagram a Sender transmits in a step had arrived
\* and passed deserialize before that step, and the Sender had no entry for
\* that payload yet.
C19_OutputStep ==
    \A s \in Targets :
        (Received(s) /\ LastOf(senderLog'[s]).ev = "sent") =>
            LET e == LastOf(senderLog'[s])
            IN /\ e.bytes \in accepted
               /\ Hits(s, e.idx) = {}

\* C19: the Senders transmit nothing but accepted datagrams, each published
\* payload at most once.
C19_NoSpuriousOutput == [](C19_OutputState) /\ [][C19_OutputStep]_vars

\* A datagram was rejected, two were accepted, and a Sender transmitted
\* each of the two once and nothing else.
C19_Witness ==
    /\ \E r \in Ports : receiverLast[r] = "rejected"
    /\ Len(chan) = 2
    /\ \E s \in Targets :
         /\ Len(senderLog[s]) = 2
         /\ Transmitted(s) = {1, 2}
         /\ senderLog[s][1].idx = 0
         /\ senderLog[s][2].idx = 1

(***************************************************************************)
(* Lag and the capacity asked of the channel.                              *)
(***************************************************************************)
\* C18 (state part): the channel retains at least as many payloads as the
\* capacity asked of it, and a handle in its loop with 1..Capacity unread
\* payloads can receive.
C18_CapacityState ==
    /\ BufferLen >= Capacity
    /\ \A s \in Targets :
         (senderPc[s] = "recv" /\ Unread(s) >= 1 /\ Unread(s) <= Capacity) =>
              ENABLED SenderRecv(s)

\* C18 (step part): a receive yields the lag signal only when the handle has
\* more unread payloads (those published after the last one it received)
\* than the capacity asked; with 1..Capacity unread payloads it yields the
\* next payload in order, leaving one fewer unread.
C18_CapacityStep ==
    \A s \in Targets : Received(s) =>
        LET e == LastOf(senderLog'[s]) IN
        /\ e.ev = "lagged" => Unread(s) > Capacity
        /\ (Unread(s) >= 1 /\ Unread(s) <= Capacity) =>
              /\ IsPayload(e)
              /\ e.idx = rxNext[s]
              /\ e.bytes = chan[rxNext[s] + 1]
              /\ rxNext'[s] = rxNext[s] + 1

=============================================================================
